---- MODULE Spec2Model ----
(***************************************************************************)
(* Fit-check-AI: a virtual try-on web application (React).                 *)
(*                                                                         *)
(* The module models the application component App (closet, staging queue, *)
(* placed garments, uploads with classification, recording, render loop),  *)
(* the hook usePoseTracker and the service analyzeClothingImage.           *)
(*                                                                         *)
(* Conventions                                                             *)
(*  - A React event handler runs to completion and React commits the state *)
(*    updates it queued in one step, so a handler is one action.  Work     *)
(*    that resumes after an await, a FileReader event or a MediaRecorder   *)
(*    event is an action of its own.                                       *)
(*  - Handlers are modelled with the guards of their own code.  The JSX    *)
(*    offers some buttons only in some states (the adjust buttons only     *)
(*    with a placed garment, "try on" only with no placed garment); the    *)
(*    handlers themselves are callable in every state, so the behaviours   *)
(*    of the user interface are a subset of the behaviours modelled here.  *)
(*  - scale is a float in the source; it is counted here in tenths         *)
(*    (10 is 1.0, 1 is 0.1).  rotation is in degrees, offsets in pixels.   *)
(*                                                                         *)
(* Specifications, each over the same variables and the same actions:      *)
(*    SpecPlace       startup, staging, commit, adjust, clear              *)
(*    SpecUpload      startup, uploads with classification, staging,       *)
(*                    commit, clear, "clear all data"                      *)
(*    SpecUploadFair  SpecUpload with the classification request settling  *)
(*    SpecAnalyze     analyzeClothingImage over its inputs                 *)
(*    SpecCapture     recording                                            *)
(*    SpecLoop        pose tracker, camera, render loop, teardown          *)
(*    SpecLayer       kept garments staged, placed, adjusted and drawn     *)
(*    SpecImages      one upload and one kept garment, staged, placed and  *)
(*                    drawn: the Image elements                            *)
(*    SpecCompose     renderLoop's placement of one garment, over its      *)
(*                    inputs                                               *)
(***************************************************************************)
EXTENDS Integers, Sequences, FiniteSets, TLC

VARIABLES
    apiKey,          \* geminiService.ts API_KEY is non-empty
    calls,           \* analyzeClothingImage as a function: the calls made and their results
    closet,          \* App state closet: ClothingItem[]
    queue,           \* App state queue: ClothingItem[]
    activeItems,     \* App state activeItems: PlacedItem[]
    isMenuOpen,      \* App state isMenuOpen
    isProcessing,    \* App state isProcessing
    uploads,         \* one entry per upload: where handleFileUpload stands
    images,          \* activeItemImagesRef: id -> state of the Image element
    stored,          \* localStorage slot 'vf_closet'
    mounted,         \* life of the App component: "init", "settling", "mounted", "unmounted"
    pending,         \* the animation-frame callbacks requested and not yet run or cancelled
    poseLandmarker,  \* usePoseTracker state poseLandmarker is set (not null)
    isModelLoading,  \* usePoseTracker state isLoading
    poseInit,        \* createPoseLandmarker: "idle", "pending", "resolved", "failed"
    videoStream,     \* App state videoStream is set (not null)
    cameraError,     \* App state cameraError is set (not null)
    camera,          \* startCamera: "idle", "pending", "granted", "denied"
    videoReady,      \* video.readyState >= 2 with non-zero videoWidth and videoHeight
    frame,           \* what the render tick that ran last did
    composed,        \* renderLoop's placement of one garment: its inputs and what it computed
    isRecording,     \* App state isRecording
    recordedChunks,  \* App state recordedChunks: Blob[]
    recorders,       \* the MediaRecorder objects created so far
    downloads,       \* the files handed to the browser's download
    last             \* the operation that ran last, and what it started from

serviceVars == <<apiKey, calls>>

sessionVars == <<closet, queue, activeItems, isMenuOpen, isProcessing,
                 uploads, images, stored>>

trackerVars == <<poseLandmarker, isModelLoading, poseInit>>

videoVars == <<videoStream, cameraError, videoReady>>

cameraVars == <<videoVars, camera>>

captureVars == <<isRecording, recordedChunks, recorders, downloads>>

canvasVars == <<frame, composed>>

vars == <<serviceVars, sessionVars, trackerVars, cameraVars, captureVars, mounted, pending,
          canvasVars, last>>

----------------------------------------------------------------------------
(* Bounds of the model *)

MaxUploads == 2
MaxQueue == 2
MaxScale == 11
MaxRot == 5
MaxTurn == 365
MaxOff == 10
MaxCalls == 3
MaxRecorders == 3

(* Program constants *)

SCALE_DEFAULT == 10
SCALE_FLOOR == 1

----------------------------------------------------------------------------
(* Data *)

Category == {"TOP", "BOTTOM", "DRESS", "ACCESSORY", "UNKNOWN"}

UploadIds == 1..MaxUploads

Max(a, b) == IF a >= b THEN a ELSE b

Abs(a) == IF a >= 0 THEN a ELSE -a

Last(s) == s[Len(s)]

(* The data URL FileReader.readAsDataURL gives for the file numbered n *)
DataUrl(n) == <<"data:image/png;base64", n>>

(* types.ts ClothingItem (timestamp, which no code reads, is left out) *)
ClothingItem(id, imageUrl, category, name) ==
    [id |-> id, imageUrl |-> imageUrl, category |-> category, name |-> name]

(* types.ts PlacedItem: a ClothingItem with the manual adjustments *)
PlacedItem(item, scale, rotation, offsetX, offsetY) ==
    [id |-> item.id, imageUrl |-> item.imageUrl, category |-> item.category,
     name |-> item.name,
     scale |-> scale, rotation |-> rotation, offsetX |-> offsetX, offsetY |-> offsetY]

(* The ClothingItem part of a PlacedItem *)
ItemOf(p) == ClothingItem(p.id, p.imageUrl, p.category, p.name)

(* The manual adjustments of a PlacedItem *)
TransformOf(p) == <<p.scale, p.rotation, p.offsetX, p.offsetY>>

----------------------------------------------------------------------------
(* localStorage slot 'vf_closet': absent, or a string.  A string written   *)
(* by the application is the JSON text of the closet: modelled as the      *)
(* sequence of the items' field tuples.                                    *)

NoSlot == [kind |-> "absent", text |-> <<>>]

CorruptSlot == [kind |-> "garbage", text |-> <<>>]

(* A string that is JSON, but of a value that is no list: the text "null" *)
NullSlot == [kind |-> "jsonNull", text |-> <<>>]

(* The value null held by the state closet in the place of a list.  It is  *)
(* written as a one-entry sequence whose entry is no garment, so that it   *)
(* can be compared with the lists the state holds otherwise; no operation  *)
(* reads its entry.                                                        *)
NullCloset == <<[id |-> 0, imageUrl |-> <<"null", 0>>, category |-> "null", name |-> "null"]>>

JSONStringifyCloset(items) ==
    IF items = NullCloset
    THEN NullSlot
    ELSE [kind |-> "json",
          text |-> [i \in 1..Len(items) |->
                      <<items[i].id, items[i].imageUrl, items[i].category, items[i].name>>]]

(* JSON.parse of the slot: ok is FALSE when it throws *)
JSONParseCloset(slot) ==
    CASE slot.kind = "json" ->
           [ok |-> TRUE,
            value |-> [i \in 1..Len(slot.text) |->
                         ClothingItem(slot.text[i][1], slot.text[i][2],
                                      slot.text[i][3], slot.text[i][4])]]
      [] slot.kind = "jsonNull" -> [ok |-> TRUE, value |-> NullCloset]
      [] OTHER -> [ok |-> FALSE, value |-> <<>>]

(* Garments kept from an earlier session *)
OldItems ==
    <<ClothingItem(91, DataUrl(91), "TOP", "Old Shirt"),
      ClothingItem(92, DataUrl(92), "BOTTOM", "Old Jeans")>>

OldIds == {OldItems[i].id : i \in 1..Len(OldItems)}

ItemIds == OldIds \cup UploadIds

(* What the slot can hold when the application starts *)
StoredAtStart ==
    {NoSlot, CorruptSlot, NullSlot, JSONStringifyCloset(<<>>),
     JSONStringifyCloset(<<OldItems[1]>>), JSONStringifyCloset(OldItems)}

----------------------------------------------------------------------------
(* geminiService.ts *)

MockResult == [category |-> "TOP", name |-> "Unidentified Item", color |-> "Unknown"]

FallbackResult == [category |-> "TOP", name |-> "New Item", color |-> "Mixed"]

(* What ai.models.generateContent can come back with: a rejection, or a    *)
(* response whose text is empty, is no JSON, or is the JSON of a result.   *)
ResponseTexts == {"", "<html>busy</html>", "{DRESS}"}

Responses ==
    {[rejected |-> TRUE, text |-> ""]}
    \cup {[rejected |-> FALSE, text |-> t] : t \in ResponseTexts}

(* JSON.parse(text) as AnalysisResult: ok is FALSE when it throws *)
JSONParseResult(text) ==
    CASE text = "{DRESS}" ->
           [ok |-> TRUE,
            value |-> [category |-> "DRESS", name |-> "Red Dress", color |-> "Red"]]
      [] OTHER -> [ok |-> FALSE, value |-> FallbackResult]

(* Mutant: the catch block rethrows instead of returning the fallback *)
analyzeClothingImage_rethrows(hasKey, resp) ==
    IF ~hasKey
    THEN [threw |-> FALSE, value |-> MockResult]
    ELSE IF resp.rejected \/ resp.text = "" \/ ~JSONParseResult(resp.text).ok
         THEN [threw |-> TRUE, value |-> FallbackResult]
         ELSE [threw |-> FALSE, value |-> JSONParseResult(resp.text).value]

(* analyzeClothingImage: what the returned promise settles to.  threw is   *)
(* TRUE when the promise rejects.  hasKey: API_KEY is non-empty; resp is   *)
(* read only with a key.                                                   *)
analyzeClothingImage(hasKey, resp) ==
    IF ~hasKey
    THEN [threw |-> FALSE, value |-> MockResult]
    ELSE IF resp.rejected \/ resp.text = "" \/ ~JSONParseResult(resp.text).ok
         THEN [threw |-> FALSE, value |-> FallbackResult]
         ELSE [threw |-> FALSE, value |-> JSONParseResult(resp.text).value]

----------------------------------------------------------------------------
(* The render-loop effect (useEffect on [renderLoop]).                     *)
(*                                                                         *)
(* pending is the sequence of requested animation-frame callbacks, oldest  *)
(* first.  Each is the renderLoop closure of one render: it holds that     *)
(* render's poseLandmarker and activeItems.  isRef marks the callback      *)
(* whose handle requestRef.current holds (no entry is marked when the ref  *)
(* is undefined or holds the handle of a callback that has run).           *)

Callback(landmarker, items) ==
    [poseLandmarker |-> landmarker, activeItems |-> items, isRef |-> TRUE]

(* cancelAnimationFrame(requestRef.current) *)
CancelRef(cbs) == SelectSeq(cbs, LAMBDA c : ~c.isRef)

(* requestRef.current = requestAnimationFrame(cb) *)
RequestFrame(cbs, cb) ==
    Append([i \in 1..Len(cbs) |-> [cbs[i] EXCEPT !.isRef = FALSE]], cb)

(* Mutant: the effect without its cleanup *)
RenderLoopEffect_noCleanup(cbs, landmarker, items) ==
    RequestFrame(cbs, Callback(landmarker, items))

(* A render in which renderLoop changed: the effect's cleanup, then the effect *)
RenderLoopEffect(cbs, landmarker, items) ==
    RequestFrame(CancelRef(cbs), Callback(landmarker, items))

----------------------------------------------------------------------------
(* renderLoop, step 4: the placement of one garment on the canvas.         *)
(*                                                                         *)
(* The source computes in floats; the model computes the same expressions  *)
(* exactly, in fixed units.  A landmark's normalized x and y are counted   *)
(* in tenths (0..10); centres and anchors in hundredths (0..100); the      *)
(* shoulder width in tenths of a pixel; the base scale and the screen      *)
(* position in hundredths of a pixel.  Canvas sizes and offsets are whole  *)
(* pixels.                                                                 *)

Point(x, y) == [x |-> x, y |-> y]

(* A landmark set, reduced to the four landmarks renderLoop reads *)
Landmarks(leftShoulder, rightShoulder, leftHip, rightHip) ==
    [leftShoulder |-> leftShoulder, rightShoulder |-> rightShoulder,
     leftHip |-> leftHip, rightHip |-> rightHip]

(* The landmark sets of the model: upright in the left half of the source, *)
(* upright in the right half, shoulders tilted, lying (hips as high as the *)
(* shoulders), and upside down (hips above the shoulders)                  *)
Poses ==
    { Landmarks(Point(5, 3), Point(1, 3), Point(4, 7), Point(2, 7)),
      Landmarks(Point(9, 2), Point(5, 2), Point(8, 6), Point(6, 6)),
      Landmarks(Point(5, 1), Point(2, 9), Point(6, 8), Point(4, 10)),
      Landmarks(Point(3, 4), Point(3, 6), Point(7, 4), Point(7, 6)),
      Landmarks(Point(6, 8), Point(4, 8), Point(6, 3), Point(4, 3)) }

(* canvas.width and canvas.height, set from the video's size *)
Canvases == { [width |-> 1000, height |-> 500], [width |-> 640, height |-> 480] }

(* The largest r in lo..hi with r * r <= n *)
RECURSIVE SqrtIn(_, _, _)
SqrtIn(n, lo, hi) ==
    IF lo = hi
    THEN lo
    ELSE LET mid == (lo + hi + 1) \div 2
         IN  IF mid * mid <= n THEN SqrtIn(n, mid, hi) ELSE SqrtIn(n, lo, mid - 1)

(* Math.sqrt on the values of the model: the root, rounded down *)
Sqrt(n) == SqrtIn(n, 0, 15000)

(* shoulderWidth, in tenths of a pixel *)
shoulderWidth(lm, canvas) ==
    Sqrt(((lm.leftShoulder.x - lm.rightShoulder.x) * canvas.width)
           * ((lm.leftShoulder.x - lm.rightShoulder.x) * canvas.width)
         + ((lm.leftShoulder.y - lm.rightShoulder.y) * canvas.height)
           * ((lm.leftShoulder.y - lm.rightShoulder.y) * canvas.height))

(* (a + b) / 2 of two coordinates in tenths, in hundredths *)
Center(a, b) == (a + b) * 5

shoulderCenterX(lm) == Center(lm.leftShoulder.x, lm.rightShoulder.x)

shoulderCenterY(lm) == Center(lm.leftShoulder.y, lm.rightShoulder.y)

hipCenterX(lm) == Center(lm.leftHip.x, lm.rightHip.x)

hipCenterY(lm) == Center(lm.leftHip.y, lm.rightHip.y)

(* Mutant: BOTTOM is anchored like TOP *)
anchorX_shoulders(category, lm) == shoulderCenterX(lm)

anchorX(category, lm) ==
    IF category = "BOTTOM" THEN hipCenterX(lm) ELSE shoulderCenterX(lm)

(* Mutant: DRESS is anchored at the shoulders *)
anchorY_dressAtShoulders(category, lm) ==
    IF category = "BOTTOM" THEN hipCenterY(lm) ELSE shoulderCenterY(lm)

(* (hipCenterY - shoulderCenterY) * 0.2 is the difference times 2 over 10: *)
(* the difference of two centres in hundredths is a multiple of 5          *)
anchorY(category, lm) ==
    IF category = "BOTTOM"
    THEN hipCenterY(lm)
    ELSE IF category = "DRESS"
         THEN shoulderCenterY(lm) + ((hipCenterY(lm) - shoulderCenterY(lm)) * 2) \div 10
         ELSE shoulderCenterY(lm)

(* baseScale, in hundredths of a pixel: shoulderWidth * 2.5, or * 1.8 *)
baseScale(category, width) ==
    IF category = "BOTTOM" THEN width * 18 ELSE width * 25

(* Mutant: the x coordinate is not mirrored *)
screenX_unmirrored(anchor, canvas, offsetX) == anchor * canvas.width + offsetX * 100

(* screenX = (1 - anchorX) * canvas.width + item.offsetX, in hundredths of a pixel *)
screenX(anchor, canvas, offsetX) == (100 - anchor) * canvas.width + offsetX * 100

(* screenY = anchorY * canvas.height + item.offsetY, in hundredths of a pixel *)
screenY(anchor, canvas, offsetY) == anchor * canvas.height + offsetY * 100

(* The forEach callback for one garment whose Image element exists, up to  *)
(* ctx.translate: the inputs, and the values it computes from them         *)
Composition(item, index, lm, canvas) ==
    [done |-> TRUE, item |-> item, index |-> index, landmarks |-> lm, canvas |-> canvas,
     anchorX |-> anchorX(item.category, lm),
     anchorY |-> anchorY(item.category, lm),
     baseScale |-> baseScale(item.category, shoulderWidth(lm, canvas)),
     screenX |-> screenX(anchorX(item.category, lm), canvas, item.offsetX),
     screenY |-> screenY(anchorY(item.category, lm), canvas, item.offsetY)]

NoComposition == [done |-> FALSE]

----------------------------------------------------------------------------
(* Initial state: the first render of App, before any effect has run *)

NoResponse == [rejected |-> FALSE, text |-> "-"]

NoDeltas == [rotation |-> 0, offsetX |-> 0, offsetY |-> 0]

NoFrame ==
    [ran |-> FALSE, background |-> FALSE, detect |-> "none", drawn |-> <<>>,
     loads |-> {}, threw |-> FALSE, rescheduled |-> FALSE, prevDetect |-> "none"]

Init ==
    /\ apiKey \in BOOLEAN
    /\ calls = <<>>
    /\ closet = <<>>
    /\ queue = <<>>
    /\ activeItems = <<>>
    /\ isMenuOpen = FALSE
    /\ isProcessing = FALSE
    /\ uploads = [u \in UploadIds |-> "idle"]
    /\ images = [i \in ItemIds |-> "none"]
    /\ stored \in StoredAtStart
    /\ poseLandmarker = FALSE
    /\ isModelLoading = TRUE
    /\ poseInit = "idle"
    /\ videoStream = FALSE
    /\ cameraError = FALSE
    /\ camera = "idle"
    /\ videoReady = FALSE
    /\ isRecording = FALSE
    /\ recordedChunks = <<>>
    /\ recorders = <<>>
    /\ downloads = <<>>
    /\ mounted = "init"
    /\ pending = <<>>
    /\ frame = NoFrame
    /\ composed = NoComposition
    /\ last = [op |-> "init", preActive |-> 0, preQueue |-> 0, preAdjusted |-> FALSE,
               threw |-> FALSE, sum |-> NoDeltas]

(* The neutral manual adjustments handleTryOn gives *)
Neutral == <<SCALE_DEFAULT, 0, 0, 0>>

(* What an operation records: its name, the lengths of the placement list  *)
(* and of the queue it starts from, whether the last placed garment had    *)
(* been adjusted, and whether the handler threw.  sum is kept from one     *)
(* operation to the next: the rotation and offset deltas that adjust has   *)
(* applied to the last placed garment since the last commit or clear.      *)
Op(name) ==
    [op |-> name, preActive |-> Len(activeItems), preQueue |-> Len(queue),
     preAdjusted |-> (activeItems # <<>> /\ TransformOf(Last(activeItems)) # Neutral),
     threw |-> FALSE, sum |-> last.sum]

(* Operations whose starting point no property reads record their name only *)
OpName(name) ==
    [op |-> name, preActive |-> 0, preQueue |-> 0, preAdjusted |-> FALSE,
     threw |-> FALSE, sum |-> last.sum]

(* The same, for a handler that ends by throwing *)
OpThrew(name) == [Op(name) EXCEPT !.threw = TRUE]

(* A commit or a clear: the placed garments are new, no delta is applied yet *)
OpReplace(name) == [Op(name) EXCEPT !.sum = NoDeltas]

(* An adjust that has applied the deltas to the last placed garment *)
OpAdjust(deltaRot, deltaX, deltaY) ==
    [Op("adjust") EXCEPT !.sum = [rotation |-> @.rotation + deltaRot,
                                  offsetX |-> @.offsetX + deltaX,
                                  offsetY |-> @.offsetY + deltaY]]

(* The re-render after setActiveItems: renderLoop is a new closure, so the *)
(* render-loop effect runs again (while the component is mounted)          *)
AfterSetActiveItems(items) ==
    IF mounted \in {"settling", "mounted"}
    THEN RenderLoopEffect(pending, poseLandmarker, items)
    ELSE pending

----------------------------------------------------------------------------
(* Mount: the effects of the first render, in the order of the hooks *)

Mount ==
    /\ mounted = "init"
    /\ poseInit' = "pending"
    /\ LET parsed == JSONParseCloset(stored)
           loads == stored.kind # "absent" /\ parsed.ok
       IN  /\ closet' = IF loads THEN parsed.value ELSE closet
           /\ mounted' = IF loads THEN "settling" ELSE "mounted"
    /\ stored' = JSONStringifyCloset(closet)
    /\ camera' = "pending"
    /\ pending' = RequestFrame(pending, Callback(poseLandmarker, activeItems))
    /\ last' = OpName("mount")
    /\ UNCHANGED <<serviceVars, queue, activeItems, isMenuOpen, isProcessing, uploads,
                   images, poseLandmarker, isModelLoading, videoVars,
                   captureVars, canvasVars>>

(* The render after the load effect's setCloset: the save effect runs      *)
(* again, now with the loaded closet                                       *)
StartupRerender ==
    /\ mounted = "settling"
    /\ stored' = JSONStringifyCloset(closet)
    /\ mounted' = "mounted"
    /\ last' = OpName("rerender")
    /\ UNCHANGED <<serviceVars, closet, queue, activeItems, isMenuOpen, isProcessing,
                   uploads, images, trackerVars, cameraVars, captureVars, pending,
                   canvasVars>>

----------------------------------------------------------------------------
(* Menu, closet and staging queue *)

(* The hamburger button.  The drawer it opens renders closet.length and    *)
(* closet.map: with null in the place of the list the render throws, and   *)
(* React removes the whole application (the effects' cleanups run).        *)
OpenMenu ==
    /\ mounted = "mounted"
    /\ ~isMenuOpen
    /\ isMenuOpen' = TRUE
    /\ IF closet = NullCloset
       THEN /\ mounted' = "crashed"
            /\ pending' = CancelRef(pending)
            /\ last' = [OpName("openMenu") EXCEPT !.threw = TRUE]
       ELSE /\ last' = OpName("openMenu")
            /\ UNCHANGED <<mounted, pending>>
    /\ UNCHANGED <<serviceVars, closet, queue, activeItems, isProcessing, uploads, images,
                   stored, trackerVars, cameraVars, captureVars, canvasVars>>

(* The uploads that will still append a garment to the queue *)
InFlight == Cardinality({u \in UploadIds : uploads[u] \in {"reading", "analyzing"}})

(* The model keeps the queue, with the uploads in flight, within MaxQueue *)
RoomInQueue == Len(queue) + InFlight < MaxQueue

(* A click on the closet's i-th garment *)
ClosetSelect(i) ==
    /\ mounted = "mounted"
    /\ closet # NullCloset
    /\ i \in 1..Len(closet)
    /\ RoomInQueue
    /\ queue' = Append(queue, closet[i])
    /\ isMenuOpen' = FALSE
    /\ last' = OpName("select")
    /\ UNCHANGED <<serviceVars, closet, activeItems, isProcessing, uploads, images,
                   stored, trackerVars, cameraVars, captureVars, mounted, pending,
                   canvasVars>>

(* The remove button of the queue's i-th entry *)
QueueRemove(i) ==
    /\ mounted = "mounted"
    /\ i \in 1..Len(queue)
    /\ queue' = SelectSeq(queue, LAMBDA x : x.id # queue[i].id)
    /\ last' = OpName("remove")
    /\ UNCHANGED <<serviceVars, closet, activeItems, isMenuOpen, isProcessing, uploads,
                   images, stored, trackerVars, cameraVars, captureVars, mounted,
                   pending, canvasVars>>

(* "Clear All Data": the slot is removed, then the re-render's save effect *)
(* writes the emptied closet                                               *)
ClearAllData ==
    /\ mounted = "mounted"
    /\ closet' = <<>>
    /\ stored' = JSONStringifyCloset(closet')
    /\ last' = OpName("clearAll")
    /\ UNCHANGED <<serviceVars, queue, activeItems, isMenuOpen, isProcessing, uploads,
                   images, trackerVars, cameraVars, captureVars, mounted, pending,
                   canvasVars>>

----------------------------------------------------------------------------
(* Placement *)

(* Mutant: the new placements are merged with the placed garments *)
committedPlacements_merge(q) ==
    activeItems \o [i \in 1..Len(q) |-> PlacedItem(q[i], SCALE_DEFAULT, 0, 0, 0)]

(* queue.map(item => ({...item, scale: 1.0, rotation: 0, offsetX: 0, offsetY: 0})) *)
committedPlacements(q) ==
    [i \in 1..Len(q) |-> PlacedItem(q[i], SCALE_DEFAULT, 0, 0, 0)]

handleTryOn ==
    /\ mounted = "mounted"
    /\ activeItems' = committedPlacements(queue)
    /\ isMenuOpen' = FALSE
    /\ pending' = AfterSetActiveItems(activeItems')
    /\ last' = OpReplace("commit")
    /\ UNCHANGED <<serviceVars, closet, queue, isProcessing, uploads, images, stored,
                   trackerVars, cameraVars, captureVars, mounted, canvasVars>>

(* Mutant: the queue is not reset *)
clearActive_keepsQueue ==
    /\ mounted = "mounted"
    /\ activeItems' = <<>>
    /\ pending' = AfterSetActiveItems(activeItems')
    /\ last' = OpReplace("clear")
    /\ UNCHANGED <<serviceVars, closet, queue, isMenuOpen, isProcessing, uploads, images,
                   stored, trackerVars, cameraVars, captureVars, mounted, canvasVars>>

clearActive ==
    /\ mounted = "mounted"
    /\ activeItems' = <<>>
    /\ queue' = <<>>
    /\ pending' = AfterSetActiveItems(activeItems')
    /\ last' = OpReplace("clear")
    /\ UNCHANGED <<serviceVars, closet, isMenuOpen, isProcessing, uploads, images, stored,
                   trackerVars, cameraVars, captureVars, mounted, canvasVars>>

(* The deltas the adjust buttons pass (scale in tenths), and the           *)
(* specification's own example, a scale delta of -1.0                      *)
Deltas ==
    { <<0, 0, 0, -10>>, <<0, 0, -10, 0>>, <<0, 0, 10, 0>>, <<0, 0, 0, 10>>,
      <<-1, 0, 0, 0>>, <<1, 0, 0, 0>>, <<0, -5, 0, 0>>, <<0, 5, 0, 0>>,
      <<-10, 0, 0, 0>> }

(* Mutant: the rotation is normalized to 0..359 *)
adjusted_wraps(item, deltaScale, deltaRot, deltaX, deltaY) ==
    PlacedItem(item,
               Max(SCALE_FLOOR, item.scale + deltaScale),
               (item.rotation + deltaRot) % 360,
               item.offsetX + deltaX,
               item.offsetY + deltaY)

(* Mutant: the scale is not floored *)
adjusted_noFloor(item, deltaScale, deltaRot, deltaX, deltaY) ==
    PlacedItem(item,
               item.scale + deltaScale,
               item.rotation + deltaRot,
               item.offsetX + deltaX,
               item.offsetY + deltaY)

(* The last entry with the deltas added and the scale floored *)
adjusted(item, deltaScale, deltaRot, deltaX, deltaY) ==
    PlacedItem(item,
               Max(SCALE_FLOOR, item.scale + deltaScale),
               item.rotation + deltaRot,
               item.offsetX + deltaX,
               item.offsetY + deltaY)

(* The model keeps the adjustments within its bounds.  A garment is        *)
(* turned beyond MaxRot, up to MaxTurn (more than a full turn), only when  *)
(* it is placed alone, with its scale and offsets as the commit left them. *)
WithinBounds(p) ==
    /\ p.scale <= MaxScale
    /\ Abs(p.offsetX) <= MaxOff
    /\ Abs(p.offsetY) <= MaxOff
    /\ \/ Abs(p.rotation) <= MaxRot
       \/ /\ Abs(p.rotation) <= MaxTurn
          /\ Len(activeItems) = 1
          /\ p.scale = SCALE_DEFAULT
          /\ p.offsetX = 0
          /\ p.offsetY = 0

(* Mutant: no early return; reading item.scale of the missing last entry throws *)
updateItemTransform_noGuard(deltaScale, deltaRot, deltaX, deltaY) ==
    /\ mounted = "mounted"
    /\ IF Len(activeItems) = 0
       THEN /\ last' = OpThrew("adjust")
            /\ UNCHANGED <<activeItems, pending>>
       ELSE LET index == Len(activeItems)
                item == activeItems[index]
                updated == [activeItems EXCEPT
                              ![index] = adjusted(item, deltaScale, deltaRot, deltaX, deltaY)]
            IN  /\ WithinBounds(updated[index])
                /\ activeItems' = updated
                /\ pending' = AfterSetActiveItems(activeItems')
                /\ last' = OpAdjust(deltaRot, deltaX, deltaY)
    /\ UNCHANGED <<serviceVars, closet, queue, isMenuOpen, isProcessing, uploads, images,
                   stored, trackerVars, cameraVars, captureVars, mounted, canvasVars>>

(* Mutant: the first entry is modified, not the last *)
updateItemTransform_first(deltaScale, deltaRot, deltaX, deltaY) ==
    /\ mounted = "mounted"
    /\ IF Len(activeItems) = 0
       THEN /\ last' = Op("adjust")
            /\ UNCHANGED <<activeItems, pending>>
       ELSE LET index == 1
                item == activeItems[index]
                updated == [activeItems EXCEPT
                              ![index] = adjusted(item, deltaScale, deltaRot, deltaX, deltaY)]
            IN  /\ WithinBounds(updated[index])
                /\ activeItems' = updated
                /\ pending' = AfterSetActiveItems(activeItems')
                /\ last' = OpAdjust(deltaRot, deltaX, deltaY)
    /\ UNCHANGED <<serviceVars, closet, queue, isMenuOpen, isProcessing, uploads, images,
                   stored, trackerVars, cameraVars, captureVars, mounted, canvasVars>>

updateItemTransform(deltaScale, deltaRot, deltaX, deltaY) ==
    /\ mounted = "mounted"
    /\ IF Len(activeItems) = 0
       THEN /\ last' = Op("adjust")
            /\ UNCHANGED <<activeItems, pending>>
       ELSE LET index == Len(activeItems)
                item == activeItems[index]
                updated == [activeItems EXCEPT
                              ![index] = adjusted(item, deltaScale, deltaRot, deltaX, deltaY)]
            IN  /\ WithinBounds(updated[index])
                /\ activeItems' = updated
                /\ pending' = AfterSetActiveItems(activeItems')
                /\ last' = OpAdjust(deltaRot, deltaX, deltaY)
    /\ UNCHANGED <<serviceVars, closet, queue, isMenuOpen, isProcessing, uploads, images,
                   stored, trackerVars, cameraVars, captureVars, mounted, canvasVars>>

----------------------------------------------------------------------------
(* Placement specification: startup, staging and the placement operations *)

NextPlace ==
    \/ Mount
    \/ StartupRerender
    \/ OpenMenu
    \/ \E i \in 1..Len(closet) : ClosetSelect(i)
    \/ \E i \in 1..Len(queue) : QueueRemove(i)
    \/ handleTryOn
    \/ clearActive
    \/ \E d \in Deltas : updateItemTransform(d[1], d[2], d[3], d[4])

SpecPlace == Init /\ [][NextPlace]_vars

(* C1: every placed garment's scale is at least 0.1 in every state reached *)
(* by commit, adjust and clear; negative scale deltas end at exactly 0.1.  *)
C1_ScaleNeverBelowFloor ==
    \A i \in 1..Len(activeItems) : activeItems[i].scale >= 1

(* C1 witness: repeated adjusts have brought the last garment to exactly 0.1 *)
C1_Witness ==
    /\ last.op = "adjust"
    /\ last.preAdjusted
    /\ activeItems # <<>>
    /\ Last(activeItems).scale = 1

(* C2: adjust on an empty placement list changes nothing (placement list,  *)
(* staging queue, garment store and the rest of the state) and does not    *)
(* throw.                                                                  *)
C2_AdjustOnEmptyIsNoOp ==
    [][(last'.op = "adjust" /\ Len(activeItems) = 0)
         => /\ activeItems' = activeItems
            /\ queue' = queue
            /\ closet' = closet
            /\ stored' = stored
            /\ isMenuOpen' = isMenuOpen
            /\ pending' = pending
            /\ ~last'.threw]_vars

(* C2 witness: adjust has run on an empty placement list, with garments in *)
(* the queue and in the closet                                             *)
C2_Witness ==
    /\ last.op = "adjust"
    /\ last.preActive = 0
    /\ queue # <<>>
    /\ closet # <<>>

(* C3: after a commit the placement list is the queue's garments, one      *)
(* placed garment per queue entry in the queue's order, each with scale    *)
(* 1.0, rotation 0 and offsets (0,0), whatever was placed before.          *)
C3_CommitReplaces ==
    last.op = "commit"
        => /\ Len(activeItems) = Len(queue)
           /\ \A i \in 1..Len(activeItems) :
                 /\ ItemOf(activeItems[i]) = queue[i]
                 /\ activeItems[i].scale = 10
                 /\ activeItems[i].rotation = 0
                 /\ activeItems[i].offsetX = 0
                 /\ activeItems[i].offsetY = 0

(* C3 witness: a commit of two different garments over a placement list    *)
(* of another length whose last garment had been adjusted                  *)
C3_Witness ==
    /\ last.op = "commit"
    /\ last.preActive = 1
    /\ last.preAdjusted
    /\ Len(activeItems) = 2
    /\ activeItems[1].id # activeItems[2].id

(* C4: after a clear the placement list and the staging queue are both     *)
(* empty, whatever they held.                                              *)
C4_ClearEmptiesBoth ==
    last.op = "clear" => (activeItems = <<>> /\ queue = <<>>)

(* C4 witness: a clear that started with placed and with queued garments *)
C4_Witness ==
    /\ last.op = "clear"
    /\ last.preActive > 0
    /\ last.preQueue > 0

(* C6: adjust on a non-empty placement list keeps the list's length and    *)
(* order, every entry but the last, and the last entry's id, category,     *)
(* image and name; the queue and the closet are unchanged.                 *)
C6_AdjustTouchesOnlyLastTransform ==
    [][(last'.op = "adjust" /\ Len(activeItems) > 0)
         => /\ Len(activeItems') = Len(activeItems)
            /\ \A i \in 1..(Len(activeItems) - 1) : activeItems'[i] = activeItems[i]
            /\ activeItems'[Len(activeItems)].id = activeItems[Len(activeItems)].id
            /\ activeItems'[Len(activeItems)].category
                  = activeItems[Len(activeItems)].category
            /\ activeItems'[Len(activeItems)].imageUrl
                  = activeItems[Len(activeItems)].imageUrl
            /\ activeItems'[Len(activeItems)].name = activeItems[Len(activeItems)].name
            /\ queue' = queue
            /\ closet' = closet
            /\ stored' = stored]_vars

(* C6 witness: an adjust has changed the last of two placed garments *)
C6_Witness ==
    /\ last.op = "adjust"
    /\ Len(activeItems) = 2
    /\ TransformOf(activeItems[2]) # Neutral
    /\ TransformOf(activeItems[1]) = Neutral

(* C13: the step that loads the store makes the closet the persisted list  *)
(* when the slot holds one, and leaves it empty when the slot is missing   *)
(* or holds anything else; once startup has settled the slot holds the     *)
(* records of the closet.                                                  *)
C13_LoadsListOrStartsEmpty ==
    /\ [][(mounted = "init" /\ mounted' # "init")
            => /\ stored.kind = "json"
                    => /\ Len(closet') = Len(stored.text)
                       /\ \A i \in 1..Len(closet') :
                             stored.text[i] = <<closet'[i].id, closet'[i].imageUrl,
                                                closet'[i].category, closet'[i].name>>
               /\ stored.kind # "json" => closet' = <<>>]_vars
    /\ [](mounted = "mounted"
            => /\ stored.kind = "json"
               /\ Len(stored.text) = Len(closet)
               /\ \A i \in 1..Len(closet) :
                     stored.text[i] = <<closet[i].id, closet[i].imageUrl,
                                        closet[i].category, closet[i].name>>)

(* C17: the last placed garment's rotation, offsetX and offsetY are the     *)
(* plain sums of the deltas that adjust has applied to it since the commit *)
(* (no wraparound at 360, no clamp).                                       *)
C17_RotationIsPlainSum ==
    activeItems # <<>>
       => /\ Last(activeItems).rotation = last.sum.rotation
          /\ Last(activeItems).offsetX = last.sum.offsetX
          /\ Last(activeItems).offsetY = last.sum.offsetY

(* C17 witness: adjusts have turned the garment by more than a full turn *)
C17_Witness ==
    /\ last.op = "adjust"
    /\ activeItems # <<>>
    /\ Last(activeItems).rotation = 365
    /\ last.sum.rotation = 365

----------------------------------------------------------------------------
(* Upload: handleFileUpload, its FileReader and its classification call *)

(* The change event of the file input.  Uploads are numbered in the order  *)
(* in which they start; the garment of upload u gets u as its id           *)
(* (crypto.randomUUID gives every garment an id of its own).               *)
handleFileUpload(u, hasFile) ==
    /\ mounted = "mounted"
    /\ uploads[u] = "idle"
    /\ \A v \in UploadIds : v < u => uploads[v] # "idle"
    /\ IF hasFile
       THEN /\ RoomInQueue
            /\ isProcessing' = TRUE
            /\ uploads' = [uploads EXCEPT ![u] = "reading"]
       ELSE UNCHANGED <<isProcessing, uploads>>
    /\ last' = OpName("upload")
    /\ UNCHANGED <<serviceVars, closet, queue, activeItems, isMenuOpen, images, stored,
                   trackerVars, cameraVars, captureVars, mounted, pending, canvasVars>>

(* Mutant: the save effect does not run after the closet has changed *)
FinishUpload_noSave(u, analysis) ==
    IF analysis.threw
    THEN /\ uploads' = [uploads EXCEPT ![u] = "failed"]
         /\ UNCHANGED <<closet, queue, images, isProcessing, stored>>
    ELSE LET newItem == ClothingItem(u, DataUrl(u), analysis.value.category,
                                     analysis.value.name)
         IN  /\ uploads' = [uploads EXCEPT ![u] = "done"]
             /\ closet' = <<newItem>> \o closet
             /\ queue' = Append(queue, newItem)
             /\ images' = [images EXCEPT ![u] = "loading"]
             /\ isProcessing' = FALSE
             /\ UNCHANGED stored

(* The rest of reader.onload once analyzeClothingImage has settled: the    *)
(* garment is created, put first in the closet and last in the queue, its  *)
(* image is preloaded, and the save effect of the re-render writes the     *)
(* closet.  A rejected promise ends the callback before any of it.         *)
FinishUpload(u, analysis) ==
    IF analysis.threw
    THEN /\ uploads' = [uploads EXCEPT ![u] = "failed"]
         /\ UNCHANGED <<closet, queue, images, isProcessing, stored>>
    ELSE LET newItem == ClothingItem(u, DataUrl(u), analysis.value.category,
                                     analysis.value.name)
         IN  /\ uploads' = [uploads EXCEPT ![u] = "done"]
             /\ closet' = <<newItem>> \o closet
             /\ queue' = Append(queue, newItem)
             /\ images' = [images EXCEPT ![u] = "loading"]
             /\ isProcessing' = FALSE
             /\ stored' = JSONStringifyCloset(closet')

(* reader.onload: with no API key analyzeClothingImage returns at once, so *)
(* the callback runs to its end; with a key it waits for generateContent   *)
ReaderOnLoad(u) ==
    /\ mounted = "mounted"
    /\ uploads[u] = "reading"
    /\ IF apiKey
       THEN /\ uploads' = [uploads EXCEPT ![u] = "analyzing"]
            /\ UNCHANGED <<closet, queue, images, isProcessing, stored>>
       ELSE FinishUpload(u, analyzeClothingImage(apiKey, NoResponse))
    /\ last' = OpName("onload")
    /\ UNCHANGED <<serviceVars, activeItems, isMenuOpen, trackerVars, cameraVars,
                   captureVars, mounted, pending, canvasVars>>

(* The file cannot be read: reader.onload never fires (there is no onerror) *)
ReaderOnError(u) ==
    /\ mounted = "mounted"
    /\ uploads[u] = "reading"
    /\ uploads' = [uploads EXCEPT ![u] = "readError"]
    /\ last' = OpName("onerror")
    /\ UNCHANGED <<serviceVars, closet, queue, activeItems, isMenuOpen, isProcessing,
                   images, stored, trackerVars, cameraVars, captureVars, mounted,
                   pending, canvasVars>>

(* ai.models.generateContent settles with resp *)
GenerateContentSettles(u, resp) ==
    /\ mounted = "mounted"
    /\ uploads[u] = "analyzing"
    /\ FinishUpload(u, analyzeClothingImage(apiKey, resp))
    /\ last' = OpName("classified")
    /\ UNCHANGED <<serviceVars, activeItems, isMenuOpen, trackerVars, cameraVars,
                   captureVars, mounted, pending, canvasVars>>

----------------------------------------------------------------------------
(* Upload specification: startup, uploads, staging, commit and clear *)

NextUpload ==
    \/ Mount
    \/ StartupRerender
    \/ \E u \in UploadIds, hasFile \in BOOLEAN : handleFileUpload(u, hasFile)
    \/ \E u \in UploadIds : ReaderOnLoad(u)
    \/ \E u \in UploadIds : ReaderOnError(u)
    \/ \E u \in UploadIds, resp \in Responses : GenerateContentSettles(u, resp)
    \/ \E i \in 1..Len(closet) : ClosetSelect(i)
    \/ \E i \in 1..Len(queue) : QueueRemove(i)
    \/ ClearAllData
    \/ handleTryOn
    \/ clearActive

(* The upload specification starts with no closet kept from earlier sessions *)
InitUpload ==
    /\ Init
    /\ stored \in {NoSlot, JSONStringifyCloset(<<>>)}

SpecUpload == InitUpload /\ [][NextUpload]_vars

(* The garment records the store holds *)
StoreRecords == {closet[j] : j \in 1..Len(closet)}

(* C25: every garment of the staging queue, and every placed garment, is a *)
(* record the store holds.                                                 *)
C25_QueueWithinStore ==
    /\ \A i \in 1..Len(queue) : queue[i] \in StoreRecords
    /\ \A k \in 1..Len(activeItems) : ItemOf(activeItems[k]) \in StoreRecords

(* The classification request of a read file settles, and the events of    *)
(* the browser's task queue are delivered                                  *)
FairUpload ==
    /\ \A u \in UploadIds : WF_vars(\E resp \in Responses : GenerateContentSettles(u, resp))

SpecUploadFair == SpecUpload /\ FairUpload

(* The number of entries of a sequence of garments that have the id *)
CountId(items, id) == Cardinality({i \in 1..Len(items) : items[i].id = id})

----------------------------------------------------------------------------
(* analyzeClothingImage as a function of its configuration and of what the *)
(* service answers: every call is logged with its result                   *)

Analyze(hasKey, resp) ==
    /\ Len(calls) < MaxCalls
    /\ calls' = Append(calls, [hasKey |-> hasKey, resp |-> resp,
                               result |-> analyzeClothingImage(hasKey, resp)])
    /\ last' = OpName("analyze")
    /\ UNCHANGED <<apiKey, sessionVars, trackerVars, cameraVars, captureVars,
                   mounted, pending, canvasVars>>

NextAnalyze == \E hasKey \in BOOLEAN, resp \in Responses : Analyze(hasKey, resp)

InitAnalyze ==
    /\ Init
    /\ apiKey
    /\ stored = NoSlot

SpecAnalyze == InitAnalyze /\ [][NextAnalyze]_vars

(* A call in which the service is unconfigured or the request fails: it is *)
(* rejected, or its response has an empty text or a text that is no JSON   *)
Degraded(c) ==
    \/ ~c.hasKey
    \/ c.resp.rejected
    \/ c.resp.text = ""
    \/ c.resp.text = "<html>busy</html>"

(* C8 as claimed: every degraded call returns, without throwing, one and   *)
(* the same placeholder.                                                   *)
C8_SamePlaceholderInAllCases ==
    \A i, j \in 1..Len(calls) :
        (Degraded(calls[i]) /\ Degraded(calls[j]))
           => /\ ~calls[i].result.threw
              /\ calls[i].result.value = calls[j].result.value

(* C8 amended: no call throws; an unconfigured call returns the            *)
(* placeholder TOP / "Unidentified Item" / "Unknown", and a configured     *)
(* call that fails returns the placeholder TOP / "New Item" / "Mixed".     *)
C8_PlaceholderPerCase ==
    \A i \in 1..Len(calls) :
        /\ ~calls[i].result.threw
        /\ ~calls[i].hasKey
              => calls[i].result.value =
                   [category |-> "TOP", name |-> "Unidentified Item", color |-> "Unknown"]
        /\ (calls[i].hasKey /\ Degraded(calls[i]))
              => calls[i].result.value =
                   [category |-> "TOP", name |-> "New Item", color |-> "Mixed"]

(* C8 witness: an unconfigured call and a configured call that was rejected *)
C8_Witness ==
    /\ Len(calls) = 2
    /\ ~calls[1].hasKey
    /\ calls[2].hasKey
    /\ calls[2].resp.rejected
    /\ calls[2].result.value.name = "New Item"

----------------------------------------------------------------------------
(* Recording: toggleRecording and the MediaRecorder's events *)

(* mediaRecorderRef.current: the ref is created with null and no code      *)
(* assigns it                                                              *)
mediaRecorderRef == "null"

(* new MediaRecorder(stream) with its two callbacks, started.  The onstop  *)
(* callback is a closure of this render: it holds this render's            *)
(* recordedChunks.  delivered and sessionClosed are history: the chunks    *)
(* the recorder has handed to ondataavailable, and whether the user has    *)
(* ended the capture session.                                              *)
NewRecorder(chunksOfRender) ==
    [state |-> "recording", onstopChunks |-> chunksOfRender, delivered |-> <<>>,
     sessionClosed |-> FALSE]

toggleRecording ==
    /\ mounted = "mounted"
    /\ IF isRecording
       THEN /\ isRecording' = FALSE
            /\ recorders' =
                 [r \in 1..Len(recorders) |->
                    IF r = Len(recorders)
                    THEN [recorders[r] EXCEPT
                            !.sessionClosed = TRUE,
                            !.state = IF mediaRecorderRef = "null"
                                      THEN recorders[r].state
                                      ELSE "stopping"]
                    ELSE recorders[r]]
            /\ UNCHANGED recordedChunks
       ELSE /\ Len(recorders) < MaxRecorders
            /\ recorders' = Append(recorders, NewRecorder(recordedChunks))
            /\ isRecording' = TRUE
            /\ recordedChunks' = <<>>
    /\ last' = OpName(IF isRecording THEN "stopRecording" ELSE "startRecording")
    /\ UNCHANGED <<serviceVars, sessionVars, trackerVars, cameraVars, downloads,
                   mounted, pending, canvasVars>>

(* recorder.ondataavailable: a chunk of size 0 is dropped *)
ondataavailable(chunks, data, size) ==
    IF size > 0 THEN Append(chunks, data) ELSE chunks

(* The file recorder.onstop of recorder r builds: new Blob(recordedChunks) *)
(* with the recordedChunks of the closure                                  *)
onstopFile(r) == [rec |-> r, chunks |-> recorders[r].onstopChunks]

(* A recorder ends (stop() was called on it, or its stream's tracks have   *)
(* ended): in one task it delivers what it recorded to ondataavailable and *)
(* then runs onstop, which downloads the file and resets recordedChunks.   *)
RecorderStops(r, size) ==
    /\ mounted = "mounted"
    /\ r \in 1..Len(recorders)
    /\ recorders[r].state \in {"recording", "stopping"}
    /\ recorders' = [recorders EXCEPT
                       ![r].state = "inactive",
                       ![r].delivered = ondataavailable(@, <<"chunk", r>>, size)]
    /\ downloads' = Append(downloads, onstopFile(r))
    /\ recordedChunks' = <<>>
    /\ last' = OpName("onstop")
    /\ UNCHANGED <<serviceVars, sessionVars, trackerVars, cameraVars, isRecording,
                   mounted, pending, canvasVars>>

NextCapture ==
    \/ Mount
    \/ toggleRecording
    \/ \E r \in 1..Len(recorders), size \in {0, 1} : RecorderStops(r, size)

InitCapture ==
    /\ Init
    /\ apiKey
    /\ stored = NoSlot

SpecCapture == InitCapture /\ [][NextCapture]_vars

(* C7: when a capture session is stopped, the recorder stops and the file  *)
(* downloaded for it holds every chunk the recorder delivered in that      *)
(* session; after the stop handler the chunk buffer is empty.              *)
C7_StopDownloadsEveryChunk ==
    /\ \A r \in 1..Len(recorders) :
          recorders[r].sessionClosed => recorders[r].state # "recording"
    /\ \A d \in 1..Len(downloads) :
          downloads[d].chunks = recorders[downloads[d].rec].delivered
    /\ last.op = "onstop" => recordedChunks = <<>>

(* The recorders that are capturing *)
Capturing == {r \in 1..Len(recorders) : recorders[r].state = "recording"}

(* The files downloaded for recorder r *)
FilesOf(r) == {d \in 1..Len(downloads) : downloads[d].rec = r}

(* C23: over any sequence of record-button toggles at most one recorder is *)
(* capturing, a recorder has just been started only when no other one is   *)
(* capturing, a session the user has ended is no longer capturing, and no  *)
(* recorder has more than one downloaded file, an ended one exactly one.   *)
C23_OneRecorderOneFilePerSession ==
    /\ Cardinality(Capturing) <= 1
    /\ last.op = "startRecording" => Capturing = {Len(recorders)}
    /\ \A r \in 1..Len(recorders) :
          /\ recorders[r].sessionClosed => r \notin Capturing
          /\ Cardinality(FilesOf(r)) <= 1
          /\ recorders[r].state = "inactive" => Cardinality(FilesOf(r)) = 1

----------------------------------------------------------------------------
(* usePoseTracker: createPoseLandmarker settles *)

PoseInitResolves ==
    /\ poseInit = "pending"
    /\ poseInit' = "resolved"
    /\ poseLandmarker' = TRUE
    /\ isModelLoading' = FALSE
    /\ pending' = IF mounted \in {"settling", "mounted"}
                  THEN RenderLoopEffect(pending, poseLandmarker', activeItems)
                  ELSE pending
    /\ last' = OpName("poseReady")
    /\ UNCHANGED <<serviceVars, sessionVars, cameraVars, captureVars, mounted, canvasVars>>

PoseInitFails ==
    /\ poseInit = "pending"
    /\ poseInit' = "failed"
    /\ isModelLoading' = FALSE
    /\ last' = OpName("poseFailed")
    /\ UNCHANGED <<serviceVars, sessionVars, poseLandmarker, cameraVars, captureVars,
                   mounted, pending, canvasVars>>

(* startCamera: getUserMedia settles *)

CameraGranted ==
    /\ camera = "pending"
    /\ camera' = "granted"
    /\ videoStream' = TRUE
    /\ last' = OpName("cameraGranted")
    /\ UNCHANGED <<serviceVars, sessionVars, trackerVars, cameraError, videoReady,
                   captureVars, mounted, pending, canvasVars>>

CameraDenied ==
    /\ camera = "pending"
    /\ camera' = "denied"
    /\ cameraError' = TRUE
    /\ last' = OpName("cameraDenied")
    /\ UNCHANGED <<serviceVars, sessionVars, trackerVars, videoStream, videoReady,
                   captureVars, mounted, pending, canvasVars>>

(* The playing video has decoded its first frame *)
VideoHasData ==
    /\ camera = "granted"
    /\ mounted \in {"settling", "mounted"}
    /\ ~videoReady
    /\ videoReady' = TRUE
    /\ last' = OpName("videoData")
    /\ UNCHANGED <<serviceVars, sessionVars, trackerVars, videoStream, cameraError,
                   camera, captureVars, mounted, pending, canvasVars>>

(* An Image element whose src was set finishes loading, or fails to *)
ImageSettles(id, ok) ==
    /\ images[id] = "loading"
    /\ images' = [images EXCEPT ![id] = IF ok THEN "ready" ELSE "broken"]
    /\ last' = OpName("imageSettled")
    /\ UNCHANGED <<serviceVars, closet, queue, activeItems, isMenuOpen, isProcessing,
                   uploads, stored, trackerVars, cameraVars, captureVars, mounted,
                   pending, canvasVars>>

(* Mutant: the render-loop effect has no cleanup *)
Unmount_noCancel ==
    /\ mounted \in {"settling", "mounted"}
    /\ mounted' = "unmounted"
    /\ last' = OpName("unmount")
    /\ UNCHANGED <<serviceVars, sessionVars, trackerVars, cameraVars, captureVars,
                   pending, canvasVars>>

(* The component is removed: the render-loop effect's cleanup runs *)
Unmount ==
    /\ mounted \in {"settling", "mounted"}
    /\ mounted' = "unmounted"
    /\ pending' = CancelRef(pending)
    /\ last' = OpName("unmount")
    /\ UNCHANGED <<serviceVars, sessionVars, trackerVars, cameraVars, captureVars,
                   canvasVars>>

----------------------------------------------------------------------------
(* renderLoop: one run of a requested animation-frame callback *)

(* What poseLandmarker.detectForVideo can do *)
DetectOutcomes == {"throw", "empty", "landmarks"}

(* Mutant: after a fault or an empty result the landmarks of the frame     *)
(* before are used                                                         *)
detectForVideo_keepsLast(outcome) ==
    [result |-> "landmarks", escaped |-> FALSE]

(* Mutant: no try/catch around detectForVideo, the fault leaves renderLoop *)
detectForVideo_uncaught(outcome) ==
    [result |-> outcome, escaped |-> (outcome = "throw")]

(* The try/catch around detectForVideo: a fault is logged and result stays *)
(* null                                                                    *)
detectForVideo(outcome) ==
    [result |-> IF outcome = "throw" THEN "null" ELSE outcome, escaped |-> FALSE]

(* Mutant: a load is started whenever the image is not complete yet *)
RECURSIVE DrawItems_reloads(_, _, _)
DrawItems_reloads(items, k, st) ==
    IF k > Len(items) \/ st.threw
    THEN st
    ELSE LET item == items[k]
             img == st.imgs[item.id]
         IN  IF img \in {"none", "loading"}
             THEN DrawItems_reloads(items, k + 1,
                                    [st EXCEPT !.imgs = [@ EXCEPT ![item.id] = "loading"],
                                               !.loads = @ \cup {item.id}])
             ELSE IF img = "broken"
                  THEN [st EXCEPT !.threw = TRUE]
                  ELSE DrawItems_reloads(items, k + 1,
                                         [st EXCEPT !.drawn =
                                            Append(@, [id |-> item.id, image |-> img, index |-> k])])

(* Mutant: the list is walked from its last entry to its first *)
RECURSIVE DrawItems_lastFirst(_, _, _)
DrawItems_lastFirst(items, k, st) ==
    IF k > Len(items) \/ st.threw
    THEN st
    ELSE LET index == Len(items) + 1 - k
             item == items[index]
             img == st.imgs[item.id]
         IN  IF img = "none"
             THEN DrawItems_lastFirst(items, k + 1,
                                      [st EXCEPT !.imgs = [@ EXCEPT ![item.id] = "loading"],
                                                 !.loads = @ \cup {item.id}])
             ELSE IF img = "broken"
                  THEN [st EXCEPT !.threw = TRUE]
                  ELSE DrawItems_lastFirst(items, k + 1,
                                           [st EXCEPT !.drawn =
                                              Append(@, [id |-> item.id, image |-> img,
                                                         index |-> index])])

(* activeItems.forEach(...): the entries from the k-th on.  st holds the   *)
(* image map, the drawImage calls made so far (garment id, the entry's     *)
(* place in the list and the state of                                      *)
(* its Image element: drawImage paints a "ready" image, paints nothing for *)
(* one still "loading" and throws InvalidStateError for a "broken" one),   *)
(* the ids whose load this tick started, and whether drawImage has thrown. *)
RECURSIVE DrawItems(_, _, _)
DrawItems(items, k, st) ==
    IF k > Len(items) \/ st.threw
    THEN st
    ELSE LET item == items[k]
             img == st.imgs[item.id]
         IN  IF img = "none"
             THEN DrawItems(items, k + 1,
                            [st EXCEPT !.imgs = [@ EXCEPT ![item.id] = "loading"],
                                       !.loads = @ \cup {item.id}])
             ELSE IF img = "broken"
                  THEN [st EXCEPT !.threw = TRUE]
                  ELSE DrawItems(items, k + 1,
                                 [st EXCEPT !.drawn =
                                    Append(@, [id |-> item.id, image |-> img, index |-> k])])

(* The sequence without its i-th entry *)
RemoveAt(s, i) == SubSeq(s, 1, i - 1) \o SubSeq(s, i + 1, Len(s))

(* Mutant: detectForVideo is called without the checks of the landmarker   *)
(* and of the video's readiness                                            *)
RenderTick_noGuard(i, outcome) ==
    /\ i \in 1..Len(pending)
    /\ LET cb == pending[i]
           rest == RemoveAt(pending, i)
           ready == mounted \in {"settling", "mounted"}
           det == IF ready THEN detectForVideo(outcome)
                  ELSE [result |-> "null", escaped |-> FALSE]
           st0 == [imgs |-> images, drawn |-> <<>>, loads |-> {}, threw |-> det.escaped]
           st == IF ready /\ det.result = "landmarks"
                 THEN DrawItems(cb.activeItems, 1, st0)
                 ELSE st0
       IN  /\ images' = st.imgs
           /\ frame' = [ran |-> TRUE,
                        background |-> ready,
                        detect |-> IF ready THEN outcome ELSE "none",
                        drawn |-> st.drawn,
                        loads |-> st.loads,
                        threw |-> st.threw,
                        rescheduled |-> ~st.threw,
                        prevDetect |-> frame.detect]
           /\ pending' = IF st.threw
                         THEN rest
                         ELSE RequestFrame(rest, [cb EXCEPT !.isRef = TRUE])
    /\ last' = OpName("tick")
    /\ UNCHANGED <<serviceVars, closet, queue, activeItems, isMenuOpen, isProcessing,
                   uploads, stored, trackerVars, cameraVars, captureVars, mounted,
                   composed>>

(* The browser runs the i-th requested callback; outcome is what           *)
(* detectForVideo does if the callback calls it.                           *)
RenderTick(i, outcome) ==
    /\ i \in 1..Len(pending)
    /\ LET cb == pending[i]
           rest == RemoveAt(pending, i)
           ready == /\ mounted \in {"settling", "mounted"}
                    /\ cb.poseLandmarker
                    /\ videoReady
           det == IF ready THEN detectForVideo(outcome)
                  ELSE [result |-> "null", escaped |-> FALSE]
           st0 == [imgs |-> images, drawn |-> <<>>, loads |-> {}, threw |-> det.escaped]
           st == IF ready /\ det.result = "landmarks"
                 THEN DrawItems(cb.activeItems, 1, st0)
                 ELSE st0
       IN  /\ images' = st.imgs
           /\ frame' = [ran |-> TRUE,
                        background |-> ready,
                        detect |-> IF ready THEN outcome ELSE "none",
                        drawn |-> st.drawn,
                        loads |-> st.loads,
                        threw |-> st.threw,
                        rescheduled |-> ~st.threw,
                        prevDetect |-> frame.detect]
           /\ pending' = IF st.threw
                         THEN rest
                         ELSE RequestFrame(rest, [cb EXCEPT !.isRef = TRUE])
    /\ last' = OpName("tick")
    /\ UNCHANGED <<serviceVars, closet, queue, activeItems, isMenuOpen, isProcessing,
                   uploads, stored, trackerVars, cameraVars, captureVars, mounted,
                   composed>>

----------------------------------------------------------------------------
(* Render-loop specification: startup, the pose tracker, the camera, the   *)
(* render loop and teardown, with garments chosen from a kept closet       *)

NextLoop ==
    \/ Mount
    \/ StartupRerender
    \/ PoseInitResolves
    \/ PoseInitFails
    \/ CameraGranted
    \/ CameraDenied
    \/ VideoHasData
    \/ \E i \in 1..Len(closet) : ClosetSelect(i)
    \/ handleTryOn
    \/ clearActive
    \/ \E id \in ItemIds, ok \in BOOLEAN : ImageSettles(id, ok)
    \/ \E i \in 1..Len(pending), outcome \in DetectOutcomes : RenderTick(i, outcome)
    \/ Unmount

InitLoop ==
    /\ Init
    /\ apiKey
    /\ stored = JSONStringifyCloset(OldItems)

SpecLoop == InitLoop /\ [][NextLoop]_vars

(* C5: a detection fault never stops the render loop.  A tick whose        *)
(* detectForVideo throws ends normally and requests the next frame; and    *)
(* the tick that runs after a faulted one calls detectForVideo again when  *)
(* the video is ready and the landmarker is set.                           *)
C5_DetectionFaultKeepsLoopRunning ==
    /\ [][(last'.op = "tick" /\ frame'.detect = "throw")
            => /\ ~frame'.threw
               /\ frame'.rescheduled
               /\ \E k \in 1..Len(pending') :
                     pending'[k].isRef /\ pending'[k].poseLandmarker]_vars
    /\ [][(frame.detect = "throw" /\ last'.op = "tick"
             /\ mounted = "mounted" /\ videoReady /\ poseLandmarker)
            => frame'.detect # "none"]_vars

(* C5 witness: the tick after a faulted tick has detected landmarks and    *)
(* drawn a garment                                                         *)
C5_Witness ==
    /\ last.op = "tick"
    /\ frame.prevDetect = "throw"
    /\ frame.detect = "landmarks"
    /\ frame.drawn # <<>>

(* C11: after unmount no animation-frame callback is pending, no render    *)
(* tick runs and no detection call is made, whatever ticks and re-runs of  *)
(* the render-loop effect came before.                                     *)
C11_NoTickAfterUnmount ==
    /\ [](mounted = "unmounted" => pending = <<>>)
    /\ [][mounted = "unmounted" => (last'.op # "tick" /\ frame' = frame)]_vars

(* C11 witness: unmounted after the landmarker was set, garments were      *)
(* placed and a tick had detected landmarks                                *)
C11_Witness ==
    /\ mounted = "unmounted"
    /\ last.op = "unmount"
    /\ poseLandmarker
    /\ activeItems # <<>>
    /\ frame.detect = "landmarks"

(* C18: on every tick a draw is issued only for a garment whose image is   *)
(* fully loaded; a garment whose image is still loading or has failed is   *)
(* skipped, and the tick goes on.                                          *)
C18_OnlyLoadedImagesDrawn ==
    last.op = "tick"
       => /\ \A k \in 1..Len(frame.drawn) : frame.drawn[k].image = "ready"
          /\ ~frame.threw

(* C20: a tick calls detectForVideo only if the landmarker's               *)
(* initialization has resolved and the video has decoded data and a        *)
(* non-zero size; a tick that does not call it still requests the next     *)
(* frame.                                                                  *)
C20_DetectOnlyWhenReady ==
    [][last'.op = "tick"
         => /\ frame'.detect # "none"
                 => (poseInit = "resolved" /\ poseLandmarker /\ videoReady)
            /\ frame'.detect = "none"
                 => /\ frame'.rescheduled
                    /\ \E k \in 1..Len(pending') : pending'[k].isRef]_vars

(* C20 witness: a tick has run with the landmarker set and the video not   *)
(* ready yet: no detection, and the next frame is requested                *)
C20_Witness ==
    /\ last.op = "tick"
    /\ poseLandmarker
    /\ ~videoReady
    /\ frame.detect = "none"
    /\ frame.rescheduled
    /\ pending # <<>>

(* C21: a tick on a ready video whose detection throws or returns no       *)
(* landmark set draws the background, draws no garment and starts no image *)
(* load, whatever is placed, and ends normally; the next tick that obtains *)
(* landmarks issues the draw of every placed garment, in the list's order  *)
(* (when every placed garment has an Image element that has not failed).   *)
C21_FaultTickDrawsBackgroundOnly ==
    /\ [][(last'.op = "tick" /\ frame'.detect \in {"throw", "empty"})
            => /\ frame'.background
               /\ frame'.drawn = <<>>
               /\ frame'.loads = {}
               /\ images' = images
               /\ ~frame'.threw
               /\ frame'.rescheduled]_vars
    /\ [][(last'.op = "tick" /\ frame.detect \in {"throw", "empty"}
             /\ frame'.detect = "landmarks"
             /\ \A k \in 1..Len(activeItems) :
                   images[activeItems[k].id] \in {"loading", "ready"})
            => /\ Len(frame'.drawn) = Len(activeItems)
               /\ \A k \in 1..Len(activeItems) :
                     frame'.drawn[k].id = activeItems[k].id]_vars

(* C21 witness: after a tick whose detection returned no landmark set,     *)
(* with two garments placed, the next tick has obtained landmarks and      *)
(* drawn both                                                              *)
C21_Witness ==
    /\ last.op = "tick"
    /\ frame.prevDetect = "empty"
    /\ frame.detect = "landmarks"
    /\ Len(activeItems) = 2
    /\ Len(frame.drawn) = 2
    /\ frame.drawn[1].image = "ready"
    /\ frame.drawn[2].image = "ready"

(* C24: while the component is mounted at most one render tick is pending, *)
(* and it is the one requestRef holds; a tick makes its one detection call *)
(* inside the tick, so no more than one call is under way.  When the       *)
(* callback is re-created (commit, clear, or the landmarker arriving) the  *)
(* only tick pending afterwards is the new callback's.                     *)
C24_OneLoopAtATime ==
    /\ [](mounted \in {"settling", "mounted"}
            => /\ Len(pending) <= 1
               /\ \A i \in 1..Len(pending) : pending[i].isRef)
    /\ [][(last'.op \in {"commit", "clear", "poseReady"}
             /\ mounted' \in {"settling", "mounted"})
            => pending' = <<Callback(poseLandmarker', activeItems')>>]_vars
    /\ [][last'.op = "tick" => Len(pending') <= Len(pending)]_vars

(* C24 witness: a tick of the re-created callback has run with landmarks   *)
(* for a committed placement list and is the only one pending              *)
C24_Witness ==
    /\ mounted = "mounted"
    /\ last.op = "tick"
    /\ frame.detect = "landmarks"
    /\ activeItems # <<>>
    /\ Len(pending) = 1
    /\ pending[1] = Callback(TRUE, activeItems)

(* The loading overlay is rendered (isModelLoading || !videoStream) *)
LoadingOverlayShown == isModelLoading \/ ~videoStream

(* The overlay's text is the camera error; no other error text is rendered *)
ErrorMessageShown == LoadingOverlayShown /\ cameraError

(* C10: once the landmark provider's initialization has failed, no         *)
(* landmarker is set and the UI shows the loading overlay or an error      *)
(* message.                                                                *)
C10_InitFailureStaysVisible ==
    (poseInit = "failed" /\ mounted \in {"settling", "mounted"})
        => /\ ~poseLandmarker
           /\ LoadingOverlayShown \/ ErrorMessageShown

----------------------------------------------------------------------------
(* Layering specification: kept garments staged, placed, adjusted and      *)
(* drawn                                                                   *)

NextLayer ==
    \/ Mount
    \/ StartupRerender
    \/ PoseInitResolves
    \/ CameraGranted
    \/ VideoHasData
    \/ \E i \in 1..Len(closet) : ClosetSelect(i)
    \/ handleTryOn
    \/ updateItemTransform(0, 0, 10, 0)
    \/ \E id \in ItemIds, ok \in BOOLEAN : ImageSettles(id, ok)
    \/ \E i \in 1..Len(pending), outcome \in DetectOutcomes : RenderTick(i, outcome)

SpecLayer == InitLoop /\ [][NextLayer]_vars

(* C22: a tick that obtains landmarks issues its draws in the order of the *)
(* placement list, at most one per entry, and one per entry when every     *)
(* placed garment has an Image element that has not failed; an adjust      *)
(* changes no entry but the last of the list, the one whose draw comes     *)
(* last.                                                                   *)
C22_DrawnInListOrderAdjustLast ==
    /\ [][(last'.op = "tick" /\ frame'.detect = "landmarks")
            => /\ \A k \in 1..Len(frame'.drawn) :
                     /\ frame'.drawn[k].index \in 1..Len(activeItems)
                     /\ frame'.drawn[k].id = activeItems[frame'.drawn[k].index].id
                     /\ \A j \in 1..(k - 1) :
                           frame'.drawn[j].index < frame'.drawn[k].index
               /\ (\A k \in 1..Len(activeItems) :
                      images[activeItems[k].id] \in {"loading", "ready"})
                    => /\ Len(frame'.drawn) = Len(activeItems)
                       /\ activeItems # <<>>
                            => frame'.drawn[Len(frame'.drawn)].index = Len(activeItems)]_vars
    /\ [][last'.op = "adjust"
            => /\ Len(activeItems') = Len(activeItems)
               /\ \A i \in 1..(Len(activeItems) - 1) : activeItems'[i] = activeItems[i]]_vars

(* C22 witness: two different garments are placed, the second has been     *)
(* adjusted, and a tick has drawn the first and then the second            *)
C22_Witness ==
    /\ last.op = "tick"
    /\ Len(activeItems) = 2
    /\ activeItems[1].id # activeItems[2].id
    /\ TransformOf(activeItems[1]) = Neutral
    /\ TransformOf(activeItems[2]) # Neutral
    /\ Len(frame.drawn) = 2
    /\ frame.drawn[1].index = 1
    /\ frame.drawn[2].index = 2
    /\ frame.drawn[2].image = "ready"

----------------------------------------------------------------------------
(* Image specification: a garment uploaded in this session and a garment   *)
(* kept from an earlier one, staged, placed and drawn                      *)

NextImages ==
    \/ Mount
    \/ StartupRerender
    \/ PoseInitResolves
    \/ CameraGranted
    \/ VideoHasData
    \/ handleFileUpload(1, TRUE)
    \/ ReaderOnLoad(1)
    \/ \E i \in 1..Len(closet) : ClosetSelect(i)
    \/ handleTryOn
    \/ clearActive
    \/ \E id \in ItemIds, ok \in BOOLEAN : ImageSettles(id, ok)
    \/ \E i \in 1..Len(pending), outcome \in DetectOutcomes : RenderTick(i, outcome)

(* No API key (uploads are classified at once), one garment kept *)
InitImages ==
    /\ Init
    /\ ~apiKey
    /\ stored = JSONStringifyCloset(<<OldItems[1]>>)

SpecImages == InitImages /\ [][NextImages]_vars

(* C19: a load is started at most once per garment id.  An id's Image      *)
(* element, once created, is never dropped; a tick starts a load only for  *)
(* an id that has no Image element; and the upload that creates a garment  *)
(* creates the one Image element of its id.                                *)
C19_LoadStartedAtMostOnce ==
    [][/\ \A id \in ItemIds : images[id] # "none" => images'[id] # "none"
       /\ last'.op = "tick" => \A id \in frame'.loads : images[id] = "none"
       /\ \A u \in UploadIds :
             (uploads[u] # "done" /\ uploads'[u] = "done") => images[u] = "none"]_vars

(* C19 witness: a tick over the garment uploaded in this session and the   *)
(* kept garment has started one load, of the kept garment, and has issued  *)
(* the draw of the uploaded garment with the image its upload created      *)
C19_Witness ==
    /\ last.op = "tick"
    /\ Len(activeItems) = 2
    /\ frame.loads = {91}
    /\ Len(frame.drawn) = 1
    /\ frame.drawn[1].id \in UploadIds

----------------------------------------------------------------------------
(* Composition specification: renderLoop's placement of one garment, over  *)
(* garments of every category, landmark sets and canvas sizes              *)

(* Manual adjustments of the composed garments *)
Transforms == {Neutral, <<5, 0, 10, -10>>, <<SCALE_DEFAULT, 5, -10, 0>>}

(* The placed garments composed: one of each category and adjustment *)
ComposedItems ==
    {PlacedItem(ClothingItem(91, DataUrl(91), c, "Garment"), t[1], t[2], t[3], t[4]) :
        c \in Category, t \in Transforms}

(* The forEach callback runs for the index-th entry of the placement list, *)
(* with the landmark set lm of this tick                                   *)
ComposeItem(item, index, lm, canvas) ==
    /\ composed' = Composition(item, index, lm, canvas)
    /\ last' = OpName("compose")
    /\ UNCHANGED <<serviceVars, sessionVars, trackerVars, cameraVars, captureVars,
                   mounted, pending, frame>>

NextCompose ==
    \E item \in ComposedItems, index \in 1..MaxQueue, lm \in Poses, canvas \in Canvases :
        ComposeItem(item, index, lm, canvas)

InitCompose ==
    /\ Init
    /\ apiKey
    /\ stored = NoSlot

SpecCompose == InitCompose /\ [][NextCompose]_vars

(* C14: a garment of category TOP, ACCESSORY or UNKNOWN is anchored at the *)
(* shoulder centre with base scale 2.5 x shoulder width; a garment of      *)
(* category BOTTOM at the hip centre with base scale 1.8 x shoulder width; *)
(* whatever its position in the list and its adjustments.                  *)
C14_AnchorByCategory ==
    composed.done
       => LET c == composed.item.category
              lm == composed.landmarks
              sw == shoulderWidth(lm, composed.canvas)
          IN  /\ c \in {"TOP", "ACCESSORY", "UNKNOWN"}
                   => /\ 2 * composed.anchorX = 10 * (lm.leftShoulder.x + lm.rightShoulder.x)
                      /\ 2 * composed.anchorY = 10 * (lm.leftShoulder.y + lm.rightShoulder.y)
                      /\ 10 * composed.baseScale = 25 * (10 * sw)
              /\ c = "BOTTOM"
                   => /\ 2 * composed.anchorX = 10 * (lm.leftHip.x + lm.rightHip.x)
                      /\ 2 * composed.anchorY = 10 * (lm.leftHip.y + lm.rightHip.y)
                      /\ 10 * composed.baseScale = 18 * (10 * sw)

(* C14 witness: an adjusted BOTTOM garment, second in the list, on a body  *)
(* whose hip centre differs from its shoulder centre in x and in y         *)
C14_Witness ==
    /\ composed.done
    /\ composed.item.category = "BOTTOM"
    /\ composed.index = 2
    /\ TransformOf(composed.item) # Neutral
    /\ composed.anchorX # shoulderCenterX(composed.landmarks)
    /\ composed.anchorY # shoulderCenterY(composed.landmarks)
    /\ composed.baseScale > 0

(* C15 as claimed: for every landmark set a DRESS is anchored at the       *)
(* shoulder centre's x, and at a y strictly between the shoulder centre's  *)
(* and the hip centre's, 20% of the way to the hips, with TOP's base scale *)
C15_DressStrictlyBetween ==
    (composed.done /\ composed.item.category = "DRESS")
       => LET lm == composed.landmarks
              scY == 5 * (lm.leftShoulder.y + lm.rightShoulder.y)
              hcY == 5 * (lm.leftHip.y + lm.rightHip.y)
          IN  /\ composed.anchorX = 5 * (lm.leftShoulder.x + lm.rightShoulder.x)
              /\ 5 * (composed.anchorY - scY) = hcY - scY
              /\ \/ scY < composed.anchorY /\ composed.anchorY < hcY
                 \/ hcY < composed.anchorY /\ composed.anchorY < scY
              /\ composed.baseScale = 25 * shoulderWidth(lm, composed.canvas)

(* C15 amended: a DRESS is anchored at the shoulder centre's x and at the  *)
(* y 20% of the way from the shoulder centre to the hip centre, with TOP's *)
(* base scale; that y is strictly between the two when they differ, and is *)
(* the shoulder centre's y when the hip centre is at the same height.      *)
C15_DressTwentyPercent ==
    (composed.done /\ composed.item.category = "DRESS")
       => LET lm == composed.landmarks
              scY == 5 * (lm.leftShoulder.y + lm.rightShoulder.y)
              hcY == 5 * (lm.leftHip.y + lm.rightHip.y)
          IN  /\ composed.anchorX = 5 * (lm.leftShoulder.x + lm.rightShoulder.x)
              /\ 5 * (composed.anchorY - scY) = hcY - scY
              /\ scY < hcY => (scY < composed.anchorY /\ composed.anchorY < hcY)
              /\ hcY < scY => (hcY < composed.anchorY /\ composed.anchorY < scY)
              /\ hcY = scY => composed.anchorY = scY
              /\ composed.baseScale = 25 * shoulderWidth(lm, composed.canvas)

(* C15 witness: a DRESS on an upright body, anchored below the shoulders   *)
(* and above the hips                                                      *)
C15_Witness ==
    /\ composed.done
    /\ composed.item.category = "DRESS"
    /\ shoulderCenterY(composed.landmarks) < composed.anchorY
    /\ composed.anchorY < hipCenterY(composed.landmarks)
    /\ composed.baseScale > 0

(* C16: screenX = (1 - anchor.x) x canvasWidth + offsetX and               *)
(* screenY = anchor.y x canvasHeight + offsetY; with offset 0 an anchor in *)
(* the left half of the source is in the right half of the canvas, and an  *)
(* anchor in the right half of the source in the left half of the canvas.  *)
C16_MirroredScreenPosition ==
    composed.done
       => LET w == composed.canvas.width
              h == composed.canvas.height
          IN  /\ composed.screenX
                   = (100 - composed.anchorX) * w + 100 * composed.item.offsetX
              /\ composed.screenY = composed.anchorY * h + 100 * composed.item.offsetY
              /\ (composed.item.offsetX = 0 /\ composed.anchorX < 50)
                   => 2 * composed.screenX > 100 * w
              /\ (composed.item.offsetX = 0 /\ composed.anchorX > 50)
                   => 2 * composed.screenX < 100 * w

(* C16 witness: canvas width 1000, anchor.x 0.3 and offsetX 0 give         *)
(* screenX 700                                                             *)
C16_Witness ==
    /\ composed.done
    /\ composed.canvas.width = 1000
    /\ composed.anchorX = 30
    /\ composed.item.offsetX = 0
    /\ composed.screenX = 70000

====
